---- MODULE Spec2Model ----
(***************************************************************************)
(* Word chain bot: the submission pipeline of Bot.on_message, the chain    *)
(* state kept in Config, the member / used-word / list / cache tables and  *)
(* the deferred busy work (schedule_busy_work / do_busy_work).             *)
(*                                                                         *)
(* A word is a sequence of one-character strings, so that len(word),       *)
(* word[0] and word[-1] are computed as the code computes them.            *)
(* None is modelled by the falsy value of the field's type: NoWord (the    *)
(* empty sequence) for Optional[str], NoId (0) for Optional[int], and the  *)
(* empty set for the Optional[set] fields, which the code only tests for   *)
(* truthiness.                                                             *)
(*                                                                         *)
(* OnMessage is one handler run up to the asyncio.sleep of                 *)
(* schedule_busy_work; TimerFire is the part of schedule_busy_work after   *)
(* the sleep.  Spec runs the handlers one after the other.  SpecTasks runs *)
(* them as the tasks the event loop makes of them: a handler is suspended  *)
(* at its awaits (Receive, EnsureMember, Decide, AcceptWrite,              *)
(* MistakeWrite) and other handlers, timers and force_dump run in between. *)
(* SpecAdmin plays the game next to check_word, the bulk import and the    *)
(* purge of the server.  SpecCalls calls get_query_response and            *)
(* is_word_blacklisted on their own over their inputs, and SpecKarma       *)
(* scores words against the histories the deque can hold; in both, last    *)
(* holds the arguments and the result of the call.  SpecConfig plays the   *)
(* game next to the configuration commands, and SpecHistory is a long      *)
(* chain of one member in single-player mode.                              *)
(***************************************************************************)
EXTENDS Integers, Sequences, FiniteSets, TLC

VARIABLES
    config,               \* Bot._config : Config (in memory)
    config_file,          \* content of CONFIG_FILE (last dump_data)
    single_player,        \* SINGLE_PLAYER, fixed at process start
    busy,                 \* Bot._busy
    timers,               \* number of schedule_busy_work calls sleeping
    cached_words,         \* Bot._cached_words (None = {})
    participating_users,  \* Bot._participating_users (None = {})
    history,              \* Bot._history : member id -> deque(maxlen=HISTORY_LENGTH)
    members,              \* table member : member id -> row
    used_words,           \* table used_words
    whitelist,            \* table whitelist (server)
    blacklist,            \* table blacklist (server)
    word_cache,           \* table word_cache: rows of word and language
    last,                 \* what the handler run did, until the handler returns;
                          \* in SpecCalls and SpecKarma, the last call and its result
    handlers              \* the on_message tasks suspended at an await

vars == <<config, config_file, single_player, busy, timers, cached_words,
          participating_users, history, members, used_words, whitelist,
          blacklist, word_cache, last, handlers>>

(***************************************************************************)
(* Bounds of the model                                                     *)
(***************************************************************************)
MaxTimers == 1
MaxMistakes == 1
\* SpecTasks: schedule_busy_work calls sleeping, or about to be made
MaxSleeping == 2

(***************************************************************************)
(* Values                                                                  *)
(***************************************************************************)
NoWord == <<>>
NoId == 0

BOT_USER == 9
Players == {1, 2}
\* the on_message tasks that can be suspended at the same time
Tasks == {1, 2}
Authors == Players \cup {BOT_USER}

GAME_CHANNEL == 7
OTHER_CHANNEL == 8
FAILED_ROLE == 5
RELIABLE_ROLE == 6
\* the guild of the game and another guild
GUILD == 3
OTHER_GUILD == 4

apple == <<"a", "p", "p", "l", "e">>
elephant == <<"e", "l", "e", "p", "h", "a", "n", "t">>
eagle == <<"e", "a", "g", "l", "e">>
zz == <<"z", "z">>
cat == <<"c", "a", "t">>
tea == <<"t", "e", "a">>
ze == <<"z", "e">>

\* message.content values offered to the handler
PlayContents ==
    { apple, elephant, zz, cat, ze,
      <<"E", "a", "g", "l", "e">>,   \* eagle in upper case, lowered by the handler
      <<"e">> }                      \* single letter

\* the words that can pass the character and length checks
Words == {apple, elephant, eagle, zz, cat, ze}

(***************************************************************************)
(* consts.py                                                               *)
(***************************************************************************)
POSSIBLE_CHARACTERS == {"a", "c", "e", "g", "h", "l", "n", "p", "t", "z", "-"}
GLOBAL_BLACKLIST_2_LETTER_WORDS == {ze}
GLOBAL_BLACKLIST_N_LETTER_WORDS == {}
GLOBAL_WHITELIST_3_LETTER_WORDS == {tea}
HISTORY_LENGTH == 5
MISTAKE_PENALTY == 5
FAILED_ROLE_STREAK == 30
\* the words that have a reaction of their own
SPECIAL_REACTION_EMOJIS == {zz}

(***************************************************************************)
(* str helpers                                                             *)
(***************************************************************************)
LowerChar(c) == IF c = "E" THEN "e" ELSE IF c = "A" THEN "a" ELSE c

Lower(s) == [i \in 1..Len(s) |-> LowerChar(s[i])]

FirstLetter(w) == w[1]

LastLetter(w) == w[Len(w)]

Max(a, b) == IF a >= b THEN a ELSE b

(***************************************************************************)
(* class Config                                                            *)
(***************************************************************************)
DefaultConfig ==
    [ channel_id |-> NoId,
      current_count |-> 0,
      current_word |-> NoWord,
      high_score |-> 0,
      current_member_id |-> NoId,
      put_high_score_emoji |-> FALSE,
      failed_role_id |-> NoId,
      reliable_role_id |-> NoId,
      failed_member_id |-> NoId,
      correct_inputs_by_failed_member |-> 0 ]

\* the config file after set_channel, before any play
FreshConfig == [DefaultConfig EXCEPT !.channel_id = GAME_CHANNEL]

\* a config file left by an earlier run of the bot
ResumedConfig ==
    [ DefaultConfig EXCEPT !.channel_id = GAME_CHANNEL,
                           !.failed_role_id = FAILED_ROLE,
                           !.reliable_role_id = RELIABLE_ROLE,
                           !.current_count = 4,
                           !.current_word = apple,
                           !.high_score = 10,
                           !.current_member_id = 1 ]

\* the high score left as it is
update_current_keeps_high_score(c, member_id, current_word) ==
    [ c EXCEPT !.current_count = c.current_count + 1,
               !.current_word = current_word,
               !.current_member_id = member_id ]

\* high score compared before the increment
update_current_stale_max(c, member_id, current_word) ==
    [ c EXCEPT !.current_count = c.current_count + 1,
               !.current_word = current_word,
               !.current_member_id = member_id,
               !.high_score = Max(c.high_score, c.current_count) ]

update_current(c, member_id, current_word) ==
    [ c EXCEPT !.current_count = c.current_count + 1,
               !.current_word = current_word,
               !.current_member_id = member_id,
               !.high_score = Max(c.high_score, c.current_count + 1) ]

\* a reset that also forgets the current word
reset_forgets_word(c) ==
    [ c EXCEPT !.current_count = 0,
               !.current_word = NoWord,
               !.correct_inputs_by_failed_member = 0,
               !.put_high_score_emoji = FALSE ]

reset(c) ==
    [ c EXCEPT !.current_count = 0,
               !.correct_inputs_by_failed_member = 0,
               !.put_high_score_emoji = FALSE ]

\* the marker returned by reaction_emoji
reaction_emoji_value(c) ==
    IF c.current_count = c.high_score /\ ~c.put_high_score_emoji THEN "high_score"
    ELSE IF c.current_count = 100 THEN "100"
    ELSE IF c.current_count = 69 THEN "69"
    ELSE IF c.current_count = 666 THEN "666"
    ELSE "generic"

\* the state effect of reaction_emoji
reaction_emoji(c) ==
    IF c.current_count = c.high_score /\ ~c.put_high_score_emoji
    THEN [ c EXCEPT !.put_high_score_emoji = TRUE ]
    ELSE c

\* Bot.failed_role / Bot.reliable_role as loaded by set_roles
failed_role(c) == c.failed_role_id # NoId

reliable_role(c) == c.reliable_role_id # NoId

(***************************************************************************)
(* list filter and cache lookups                                           *)
(***************************************************************************)
is_word_whitelisted(word, wl) == word \in wl

\* the global blacklists without the three-letter rule
is_word_blacklisted_global_lists_only(word) ==
    word \in GLOBAL_BLACKLIST_2_LETTER_WORDS \/ word \in GLOBAL_BLACKLIST_N_LETTER_WORDS

\* lines 730-736
is_word_blacklisted_global(word) ==
    IF word \in GLOBAL_BLACKLIST_2_LETTER_WORDS \/ word \in GLOBAL_BLACKLIST_N_LETTER_WORDS
    THEN TRUE
    ELSE IF Len(word) = 3 /\ word \notin GLOBAL_WHITELIST_3_LETTER_WORDS
    THEN TRUE
    ELSE FALSE

\* a check that reads the server blacklist only
is_word_blacklisted_server_only(word, bl) == word \in bl

is_word_blacklisted(word, bl) ==
    IF is_word_blacklisted_global(word)
    THEN TRUE
    ELSE word \in bl

\* a cache that never reports a hit
\* the language codes of the word lists that are imported
Languages == {"en", "de"}

\* the language of a row that was written without one
NoLanguage == "none"

\* the rows of word_cache for a set of words of one language: the table is
\* keyed on word and language
Rows(words, language) == {[word |-> w, language |-> language] : w \in words}

\* the spellings that occur in a set of rows
Spellings(cache) == {row.word : row \in cache}

is_word_in_cache_never(word, cache) == FALSE

is_word_in_cache(word, cache) == \E row \in cache : row.word = word

(***************************************************************************)
(* the dictionary lookup                                                   *)
(***************************************************************************)
API_RESPONSE_WORD_EXISTS == 1
API_RESPONSE_WORD_DOESNT_EXIST == 0
API_RESPONSE_ERROR == -1

\* the title under which the service lists a word: first letter in upper case
Capitalize(w) ==
    [i \in 1..Len(w) |-> IF i = 1 /\ w[i] = "e" THEN "E"
                         ELSE IF i = 1 /\ w[i] = "a" THEN "A" ELSE w[i]]

\* the values of a decoded JSON payload
JStr(s) == [t |-> "str", v |-> s]
JList(xs) == [t |-> "list", v |-> xs]
JObject == [t |-> "dict", v |-> <<>>]
JNull == [t |-> "null", v |-> <<>>]

\* x[i - 1]: an item of a list, a character of a string, IndexError past the
\* end of either, KeyError on an object and TypeError on null
getitem(x, i) ==
    IF x.t \in {"list", "str"}
    THEN IF i <= Len(x.v)
         THEN [exc |-> "none", val |-> IF x.t = "list" THEN x.v[i] ELSE JStr(<<x.v[i]>>)]
         ELSE [exc |-> "IndexError", val |-> JNull]
    ELSE [exc |-> "Exception", val |-> JNull]

\* what future.result(timeout=5) can deliver for a query of word
TimedOut == [timeout |-> TRUE, status_code |-> 0, parsed |-> FALSE, data |-> JNull]

\* a response of status 200 with a JSON body
Payload(data) == [timeout |-> FALSE, status_code |-> 200, parsed |-> TRUE, data |-> data]

NoMatch(word) == Payload(JList(<<JStr(word), JList(<<>>)>>))

Match(word) == Payload(JList(<<JStr(word), JList(<<JStr(Capitalize(word))>>)>>))

\* the payloads that are not what the service documents: an object, a
\* string, a second field that is null or a string, a best match that is
\* not a string, a first field that is not a string
Malformed(word) ==
    { Payload(JObject),
      Payload(JStr(<<"e", "e">>)),
      Payload(JList(<<JStr(word), JNull>>)),
      Payload(JList(<<JStr(word), JStr(word)>>)),
      Payload(JList(<<JStr(word), JList(<<JNull>>)>>)),
      Payload(JList(<<JNull, JList(<<JStr(word)>>)>>)) }

Responses(word) ==
    { TimedOut, NoMatch(word), Match(word),
      [timeout |-> FALSE, status_code |-> 500, parsed |-> FALSE, data |-> JNull],
      [timeout |-> FALSE, status_code |-> 200, parsed |-> FALSE, data |-> JNull],
      Payload(JList(<<>>)),
      Payload(JList(<<JStr(word)>>)),
      Payload(JList(<<JStr(word), JList(<<JStr(word)>>)>>)),
      Payload(JList(<<JStr(word), JList(<<JStr(tea)>>)>>)) }
        \cup Malformed(word)

\* future = None
NoResponse == [timeout |-> TRUE, status_code |-> 0, parsed |-> FALSE, data |-> JNull]

\* the except clauses: IndexError means no match, any other exception is an
\* error
on_exception(exc) ==
    IF exc = "IndexError" THEN API_RESPONSE_WORD_DOESNT_EXIST ELSE API_RESPONSE_ERROR

get_query_response(r) ==
    IF r.timeout THEN API_RESPONSE_ERROR
    ELSE IF r.status_code >= 400 THEN API_RESPONSE_ERROR
    ELSE IF ~r.parsed THEN API_RESPONSE_ERROR
    ELSE LET word == getitem(r.data, 1)
             matches == getitem(r.data, 2)
         IN  IF word.exc # "none" THEN on_exception(word.exc)
             ELSE IF matches.exc # "none" THEN on_exception(matches.exc)
             ELSE LET best_match == getitem(matches.val, 1)
                  IN  IF best_match.exc # "none" THEN on_exception(best_match.exc)
                      ELSE IF best_match.val.t # "str" \/ word.val.t # "str"
                      THEN API_RESPONSE_ERROR
                      ELSE IF Lower(best_match.val.v) = Lower(word.val.v)
                      THEN API_RESPONSE_WORD_EXISTS
                      ELSE API_RESPONSE_WORD_DOESNT_EXIST

(***************************************************************************)
(* karma (integer units)                                                   *)
(***************************************************************************)
calculate_base_karma(word) == IF LastLetter(word) = "z" THEN -6 ELSE 1

SameEnding(word, last_words) ==
    Cardinality({i \in 1..Len(last_words) : LastLetter(last_words[i]) = LastLetter(word)})

\* a scorer that applies the decay to every base karma
calculate_total_karma_decays_all(word, last_words) ==
    calculate_base_karma(word) * (HISTORY_LENGTH + 1 - SameEnding(word, last_words))

calculate_total_karma(word, last_words) ==
    IF calculate_base_karma(word) < 0
    THEN calculate_base_karma(word)
    ELSE calculate_base_karma(word) * (HISTORY_LENGTH + 1 - SameEnding(word, last_words))

\* a deque without maxlen
\* a full deque that drops its newest element
deque_append_drops_newest(d, x) ==
    IF Len(d) < HISTORY_LENGTH THEN Append(d, x)
    ELSE Append(SubSeq(d, 1, Len(d) - 1), x)

deque_append_unbounded(d, x) == Append(d, x)

\* deque(maxlen=HISTORY_LENGTH).append
deque_append(d, x) ==
    IF Len(d) < HISTORY_LENGTH THEN Append(d, x) ELSE Append(Tail(d), x)

(***************************************************************************)
(* table member                                                            *)
(***************************************************************************)
NoRow == [exists |-> FALSE, score |-> 0, correct |-> 0, wrong |-> 0, karma |-> 0]

NewRow == [exists |-> TRUE, score |-> 0, correct |-> 0, wrong |-> 0, karma |-> 0]

\* lines 322-339: insert the author's row unless it exists
ensure_member(m, author) ==
    IF m[author].exists THEN m ELSE [m EXCEPT ![author] = NewRow]

\* the accept update without the clamp
accept_member_unclamped(row, karma) ==
    [ row EXCEPT !.score = row.score + 1,
                 !.correct = row.correct + 1,
                 !.karma = row.karma + karma ]

\* lines 470-477
accept_member(row, karma) ==
    [ row EXCEPT !.score = row.score + 1,
                 !.correct = row.correct + 1,
                 !.karma = Max(0, row.karma + karma) ]

\* the penalty without the score
mistake_member_keeps_score(row) ==
    [ row EXCEPT !.wrong = row.wrong + 1,
                 !.karma = Max(0, row.karma - MISTAKE_PENALTY) ]

\* the penalty without the clamp
mistake_member_unclamped(row) ==
    [ row EXCEPT !.score = row.score - 1,
                 !.wrong = row.wrong + 1,
                 !.karma = row.karma - MISTAKE_PENALTY ]

\* lines 521-528
mistake_member(row) ==
    [ row EXCEPT !.score = row.score - 1,
                 !.wrong = row.wrong + 1,
                 !.karma = Max(0, row.karma - MISTAKE_PENALTY) ]

(***************************************************************************)
(* the used words                                                          *)
(***************************************************************************)
\* an insert that starts the table afresh
used_words_insert_afresh(used, word) == {word}

\* lines 480-484: the accepted word joins the used words of the server
used_words_insert(used, word) == used \cup {word}

(***************************************************************************)
(* Bot.add_to_cache                                                        *)
(***************************************************************************)
\* the columns of WordCacheModel
WordCacheColumns == {"word"}

\* the column named by the insert statement of add_to_cache
AddToCacheColumn == "words"

\* the table after add_to_cache ran on the pending set: the statement is
\* executed for each word that is not globally blacklisted, it does not
\* compile against a table without the column it names, and the exception
\* leaves the transaction without commit
\* line 700: the statement names a column the table does not have, so its
\* execution raises CompileError
add_to_cache_raises(pending) ==
    /\ {w \in pending : ~is_word_blacklisted_global(w)} # {}
    /\ AddToCacheColumn \notin WordCacheColumns

add_to_cache(pending, cache) ==
    LET to_insert == {w \in pending : ~is_word_blacklisted_global(w)}
    IN  IF to_insert = {} THEN cache
        ELSE IF AddToCacheColumn \in WordCacheColumns
             THEN cache \cup Rows(to_insert, NoLanguage)
        ELSE cache

(***************************************************************************)
(* Bot.on_message: the verdict of the pipeline                             *)
(***************************************************************************)
LegalCharacters(word) == \A i \in 1..Len(word) : word[i] \in POSSIBLE_CHARACTERS

\* a lookup that is skipped for cached words only
StartsQuery_cache_only(word) == ~is_word_in_cache(word, word_cache)

\* a lookup is started iff the word is neither whitelisted nor cached
StartsQuery(word) ==
    ~(is_word_whitelisted(word, whitelist) \/ is_word_in_cache(word, word_cache))

\* a length test that is off by one
TooShort_off_by_one(word) == Len(word) = 0

\* line 303
TooShort(word) == Len(word) = 1

\* line 351
Blacklisted(word) ==
    ~is_word_whitelisted(word, whitelist) /\ is_word_blacklisted(word, blacklist)

\* a repetition test against the current word only
Repeated_current_only(word) == word = config.current_word

\* lines 380-386
Repeated(word) == word \in used_words

\* the turn-order test without the single-player switch
WrongMember_always(author) ==
    config.current_member_id # NoId /\ config.current_member_id = author

WrongMember(author) ==
    ~single_player /\ config.current_member_id # NoId /\ config.current_member_id = author

\* no test of the starting letter
WrongLetter_unchecked(word) == FALSE

WrongLetter(word) ==
    config.current_word # NoWord /\ FirstLetter(word) # LastLetter(config.current_word)

\* the pipeline with the repetition test ahead of the blacklist test
Verdict_repetition_first(author, channel, word, response) ==
    IF author = BOT_USER THEN "own_message"
    ELSE IF channel # config.channel_id THEN "other_channel"
    ELSE IF ~LegalCharacters(word) THEN "illegal"
    ELSE IF Len(word) = 0 THEN "empty"
    ELSE IF TooShort(word) THEN "single_letter"
    ELSE IF Repeated(word) THEN "repeated"
    ELSE IF Blacklisted(word) THEN "blacklisted"
    ELSE IF WrongMember(author) THEN "wrong_member"
    ELSE IF WrongLetter(word) THEN "wrong_letter"
    ELSE IF StartsQuery(word) /\ get_query_response(response) = API_RESPONSE_WORD_DOESNT_EXIST
         THEN "not_exists"
    ELSE IF StartsQuery(word) /\ get_query_response(response) = API_RESPONSE_ERROR
         THEN "error"
    ELSE "accepted"

\* lines 286-455: the first check that fails decides
Verdict(author, channel, word, response) ==
    IF author = BOT_USER THEN "own_message"
    ELSE IF channel # config.channel_id THEN "other_channel"
    ELSE IF ~LegalCharacters(word) THEN "illegal"
    ELSE IF Len(word) = 0 THEN "empty"
    ELSE IF TooShort(word) THEN "single_letter"
    ELSE IF Blacklisted(word) THEN "blacklisted"
    ELSE IF Repeated(word) THEN "repeated"
    ELSE IF WrongMember(author) THEN "wrong_member"
    ELSE IF WrongLetter(word) THEN "wrong_letter"
    ELSE IF StartsQuery(word) /\ get_query_response(response) = API_RESPONSE_WORD_DOESNT_EXIST
         THEN "not_exists"
    ELSE IF StartsQuery(word) /\ get_query_response(response) = API_RESPONSE_ERROR
         THEN "error"
    ELSE "accepted"

Ignored == {"own_message", "other_channel", "illegal", "empty"}
Soft == {"single_letter", "blacklisted", "repeated"}
Mistakes == {"wrong_member", "wrong_letter", "not_exists"}

\* start_api_query was called in the run with this verdict
QueryStarted(word, verdict) ==
    verdict \notin (Ignored \cup {"single_letter", "blacklisted"}) /\ StartsQuery(word)

\* a lookup that is resolved as soon as it is started
QueryResolved_at_start(word, verdict) == QueryStarted(word, verdict)

\* get_query_response was called in the run with this verdict
QueryResolved(word, verdict) ==
    verdict \in {"not_exists", "error", "accepted"} /\ StartsQuery(word)

\* line 309
busy_enter(b) == b + 1

\* a sleep that is started only when none is pending
schedule_busy_work_single(n) == IF n > 0 THEN n ELSE n + 1

\* lines 262-263: every call starts its own asyncio.sleep(5); n calls are
\* sleeping already
schedule_busy_work(n) == n + 1

\* an early return that forgets the counter
busy_leave_forgotten(b) == b

\* lines 358, 394, 454: the early returns that schedule no busy work
busy_leave(b) == b - 1

(***************************************************************************)
(* Bot.handle_mistake and the accepting tail of Bot.on_message             *)
(***************************************************************************)
handle_mistake_config(c, author) ==
    reset(IF failed_role(c) THEN [c EXCEPT !.failed_member_id = author] ELSE c)

\* the streak compared with > instead of >=
failed_member_progress_late_clear(c, author) ==
    IF failed_role(c) /\ c.failed_member_id = author
    THEN IF c.correct_inputs_by_failed_member + 1 > FAILED_ROLE_STREAK
         THEN [c EXCEPT !.failed_member_id = NoId, !.correct_inputs_by_failed_member = 0]
         ELSE [c EXCEPT !.correct_inputs_by_failed_member = c.correct_inputs_by_failed_member + 1]
    ELSE c

\* lines 496-502
failed_member_progress(c, author) ==
    IF failed_role(c) /\ c.failed_member_id = author
    THEN IF c.correct_inputs_by_failed_member + 1 >= FAILED_ROLE_STREAK
         THEN [c EXCEPT !.failed_member_id = NoId, !.correct_inputs_by_failed_member = 0]
         ELSE [c EXCEPT !.correct_inputs_by_failed_member = c.correct_inputs_by_failed_member + 1]
    ELSE c

accept_config(c, author, word) ==
    failed_member_progress(reaction_emoji(update_current(c, author, word)), author)

\* line 370: no future
NO_FUTURE == -2

\* no task: the slot is free
Idle == [ pc |-> "idle", author |-> NoId, word |-> NoWord ]

\* no handler run is being reported
NoObservation ==
    [ author |-> NoId, word |-> NoWord, verdict |-> "none",
      query_started |-> FALSE, query_resolved |-> FALSE,
      future_result |-> NO_FUTURE, reaction |-> "none" ]

\* line 464: the reaction put on an accepted message, the one of the word if
\* it has one, else the one reaction_emoji returned; reaction_emoji has been
\* called in both cases
add_reaction(author, word) ==
    IF word \in SPECIAL_REACTION_EMOJIS THEN "special"
    ELSE reaction_emoji_value(update_current(config, author, word))

\* future_result: what the future started by the run yields to
\* get_query_response, whether or not the run asks for it
Observe(author, word, verdict, response) ==
    [ author |-> author, word |-> word, verdict |-> verdict,
      query_started |-> QueryStarted(word, verdict),
      query_resolved |-> QueryResolved(word, verdict),
      future_result |-> IF QueryStarted(word, verdict)
                        THEN get_query_response(response) ELSE NO_FUTURE,
      reaction |-> IF verdict = "accepted" THEN add_reaction(author, word) ELSE "none" ]

OnMessage(author, channel, content, response) ==
    LET word == Lower(content)
        verdict == Verdict(author, channel, word, response)
    IN  /\ last = NoObservation
        /\ last' = Observe(author, word, verdict, response)
        /\ UNCHANGED <<config_file, single_player, whitelist, blacklist, word_cache,
                       handlers>>
        /\ IF verdict \in Ignored \cup {"single_letter"}
           THEN UNCHANGED <<config, busy, timers, cached_words, participating_users,
                            history, members, used_words>>
           ELSE /\ participating_users' = participating_users \cup {author}
                /\ IF verdict \in {"blacklisted", "repeated", "error"}
                   THEN /\ members' = ensure_member(members, author)
                        /\ busy' = busy_leave(busy_enter(busy))
                        /\ UNCHANGED <<config, timers, cached_words, history, used_words>>
                   ELSE IF verdict \in Mistakes
                   THEN /\ timers < MaxTimers
                        /\ members[1].wrong + members[2].wrong < MaxMistakes
                        /\ config' = handle_mistake_config(config, author)
                        /\ members' = [ensure_member(members, author) EXCEPT
                                         ![author] = mistake_member(@)]
                        /\ busy' = busy_enter(busy)
                        /\ timers' = schedule_busy_work(timers)
                        /\ UNCHANGED <<cached_words, history, used_words>>
                   ELSE /\ timers < MaxTimers
                        /\ config' = accept_config(config, author, word)
                        /\ history' = [history EXCEPT ![author] = deque_append(@, word)]
                        /\ members' = [ensure_member(members, author) EXCEPT
                                         ![author] = accept_member(@,
                                            calculate_total_karma(word, history[author]))]
                        /\ used_words' = used_words_insert(used_words, word)
                        /\ cached_words' = cached_words \cup {word}
                        /\ busy' = busy_enter(busy)
                        /\ timers' = schedule_busy_work(timers)

\* the handler run is over (its return, or its await of schedule_busy_work)
Return ==
    /\ last # NoObservation
    /\ last' = NoObservation
    /\ UNCHANGED <<config, config_file, single_player, busy, timers, cached_words,
                   participating_users, history, members, used_words, whitelist,
                   blacklist, word_cache, handlers>>

(***************************************************************************)
(* schedule_busy_work after its sleep, do_busy_work                        *)
(***************************************************************************)
\* add_remove_failed_role: fetch_member raises NotFound (lines 256-260)
failed_member_not_found(c) ==
    [c EXCEPT !.failed_member_id = NoId, !.correct_inputs_by_failed_member = 0]

\* do_busy_work with the counter at b; not_found: the failed member has no
\* failed role yet and has left the server
do_busy_work(b, not_found) ==
    IF b = 0
    THEN /\ config' = IF not_found /\ failed_role(config) /\ config.failed_member_id # NoId
                      THEN failed_member_not_found(config) ELSE config
         /\ config_file' = config'
         /\ participating_users' = IF reliable_role(config) THEN {} ELSE participating_users
         /\ cached_words' = {}
         /\ word_cache' = add_to_cache(cached_words, word_cache)
    ELSE UNCHANGED <<config, config_file, participating_users, cached_words, word_cache>>

TimerFire(not_found) ==
    /\ last = NoObservation
    /\ timers > 0
    /\ timers' = timers - 1
    /\ busy' = busy - 1
    /\ do_busy_work(busy - 1, not_found)
    /\ last' = NoObservation
    /\ UNCHANGED <<single_player, history, members, used_words, whitelist, blacklist,
                   handlers>>

(***************************************************************************)
(* whitelist / blacklist commands                                          *)
(***************************************************************************)
WhitelistWords == {cat}

BlacklistWords == {eagle}

ListCommand ==
    /\ last = NoObservation
    /\ last' = NoObservation
    /\ UNCHANGED <<config, config_file, single_player, busy, timers, cached_words,
                   participating_users, history, members, used_words, word_cache,
                   handlers>>

whitelist_add(word) ==
    /\ LegalCharacters(Lower(word))
    /\ whitelist' = whitelist \cup {Lower(word)}
    /\ UNCHANGED blacklist
    /\ ListCommand

whitelist_remove(word) ==
    /\ LegalCharacters(Lower(word))
    /\ whitelist' = whitelist \ {Lower(word)}
    /\ UNCHANGED blacklist
    /\ ListCommand

blacklist_add(word) ==
    /\ LegalCharacters(Lower(word))
    /\ blacklist' = blacklist \cup {Lower(word)}
    /\ UNCHANGED whitelist
    /\ ListCommand

blacklist_remove(word) ==
    /\ LegalCharacters(Lower(word))
    /\ blacklist' = blacklist \ {Lower(word)}
    /\ UNCHANGED whitelist
    /\ ListCommand

(***************************************************************************)
(* specification                                                           *)
(***************************************************************************)
\* the bot starts on a config file that names the channel and on empty
\* tables, or on the files of an earlier run in which member 1 contributed
\* apple
Init ==
    /\ busy = 0
    /\ timers = 0
    /\ cached_words = {}
    /\ participating_users = {}
    /\ history = [m \in Players |-> <<>>]
    /\ whitelist = {}
    /\ blacklist = {}
    /\ last = NoObservation
    /\ handlers = [t \in Tasks |-> Idle]
    /\ \/ /\ single_player = FALSE
          /\ config_file = FreshConfig
          /\ members = [m \in Players |-> NoRow]
          /\ used_words = {}
          /\ word_cache = {}
       \/ /\ single_player \in BOOLEAN
          /\ config_file = ResumedConfig
          /\ members = [m \in Players |->
                          IF m = 1 THEN [exists |-> TRUE, score |-> 2, correct |-> 2,
                                         wrong |-> 0, karma |-> 6]
                          ELSE NoRow]
          /\ used_words = {apple}
          /\ word_cache = Rows({apple, eagle}, "en")
    /\ config = config_file

\* the messages delivered to the handler: author, channel, content
Messages ==
    (Players \X {GAME_CHANNEL} \X PlayContents)
        \cup {<<BOT_USER, GAME_CHANNEL, apple>>, <<1, OTHER_CHANNEL, apple>>,
              <<1, GAME_CHANNEL, <<"e", "!">>>>, <<1, GAME_CHANNEL, <<>>>>}

\* the responses offered to a run, one for each result of get_query_response;
\* none when no query is started
PlayResponses(word) ==
    IF LegalCharacters(word) /\ Len(word) > 1 /\ StartsQuery(word)
    THEN {TimedOut, NoMatch(word), Match(word)}
    ELSE {NoResponse}

Next ==
    \/ \E msg \in Messages :
          \E response \in PlayResponses(Lower(msg[3])) :
             OnMessage(msg[1], msg[2], msg[3], response)
    \/ Return
    \/ \E not_found \in BOOLEAN : TimerFire(not_found)
    \/ \E word \in WhitelistWords : whitelist_add(word)
    \/ \E word \in WhitelistWords : whitelist_remove(word)
    \/ \E word \in BlacklistWords : blacklist_add(word)
    \/ \E word \in BlacklistWords : blacklist_remove(word)

Spec == Init /\ [][Next]_vars

TypeOK ==
    /\ busy \in -MaxTimers..MaxTimers
    /\ timers \in 0..MaxTimers
    /\ used_words \subseteq Words

(***************************************************************************)
(* The handlers as tasks of the event loop                                 *)
(*                                                                         *)
(* Each message is handled by a task of its own; a task runs until it      *)
(* awaits and then any other task may run.  The pieces below are the runs  *)
(* of on_message between the awaits that matter: get_query_response blocks *)
(* without awaiting, so from the answer of the used_words query (line 384) *)
(* to the first await after the decision (line 464, or line 518 in         *)
(* handle_mistake) nothing else runs.                                      *)
(***************************************************************************)
\* the tasks suspended inside on_message
InFlight == {t \in Tasks : handlers[t].pc # "idle"}

\* the tasks that will call schedule_busy_work unless their write fails
Writing == {t \in Tasks : handlers[t].pc \in {"accept_write", "mistake_write"}}

\* lines 286-314: up to the first await
Receive(t, author, channel, content) ==
    LET word == Lower(content)
    IN  /\ last = NoObservation
        /\ handlers[t].pc = "idle"
        /\ author # BOT_USER
        /\ channel = config.channel_id
        /\ LegalCharacters(word)
        /\ Len(word) # 0
        /\ ~TooShort(word)
        /\ busy' = busy_enter(busy)
        /\ participating_users' = participating_users \cup {author}
        /\ handlers' = [handlers EXCEPT ![t] =
                          [pc |-> "member", author |-> author, word |-> word]]
        /\ UNCHANGED <<config, config_file, single_player, timers, cached_words,
                       history, members, used_words, whitelist, blacklist,
                       word_cache, last>>

\* lines 316-339
EnsureMember(t) ==
    /\ handlers[t].pc = "member"
    /\ members' = ensure_member(members, handlers[t].author)
    /\ handlers' = [handlers EXCEPT ![t].pc = "checks"]
    /\ UNCHANGED <<config, config_file, single_player, busy, timers, cached_words,
                   participating_users, history, used_words, whitelist, blacklist,
                   word_cache, last>>

\* lines 462-464: the part of the accepting tail before its first await
accept_decided(c, author, word) == reaction_emoji(update_current(c, author, word))

\* lines 341-464 and 508-518: the checks and what follows them up to the
\* next await
Decide(t, response) ==
    LET author == handlers[t].author
        word == handlers[t].word
        verdict == Verdict(author, config.channel_id, word, response)
    IN  /\ handlers[t].pc = "checks"
        /\ UNCHANGED <<config_file, single_player, timers, cached_words,
                       participating_users, history, members, used_words,
                       whitelist, blacklist, word_cache, last>>
        /\ IF verdict \in {"blacklisted", "repeated", "error"}
           THEN /\ busy' = busy_leave(busy)
                /\ handlers' = [handlers EXCEPT ![t] = Idle]
                /\ UNCHANGED config
           ELSE IF verdict \in Mistakes
           THEN /\ timers + Cardinality(Writing) < MaxSleeping
                /\ members[1].wrong + members[2].wrong
                     + Cardinality({u \in Tasks : handlers[u].pc = "mistake_write"})
                     < MaxMistakes
                /\ config' = handle_mistake_config(config, author)
                /\ handlers' = [handlers EXCEPT ![t].pc = "mistake_write"]
                /\ UNCHANGED busy
           ELSE /\ timers + Cardinality(Writing) < MaxSleeping
                /\ config' = accept_decided(config, author, word)
                /\ handlers' = [handlers EXCEPT ![t].pc = "accept_write"]
                /\ UNCHANGED busy

\* line 484: the insert into used_words raises IntegrityError when the row
\* (server_id, word) is there already
used_words_insert_raises(word) == word \in used_words

\* lines 464-504: the writes of an accepted word.  An exception of the
\* insert leaves the block of SQL_ENGINE.begin(), which rolls the
\* transaction back, and ends the task: lines 488-504 are not run.
AcceptWrite(t) ==
    LET author == handlers[t].author
        word == handlers[t].word
    IN  /\ handlers[t].pc = "accept_write"
        /\ handlers' = [handlers EXCEPT ![t] = Idle]
        /\ history' = [history EXCEPT ![author] = deque_append(@, word)]
        /\ UNCHANGED <<config_file, single_player, busy, participating_users,
                       whitelist, blacklist, word_cache, last>>
        /\ IF used_words_insert_raises(word)
           THEN UNCHANGED <<config, timers, cached_words, members, used_words>>
           ELSE /\ members' = [members EXCEPT ![author] =
                                 accept_member(@, calculate_total_karma(word, history[author]))]
                /\ used_words' = used_words_insert(used_words, word)
                /\ cached_words' = cached_words \cup {word}
                /\ config' = failed_member_progress(config, author)
                /\ timers' = schedule_busy_work(timers)

\* lines 518-532
MistakeWrite(t) ==
    /\ handlers[t].pc = "mistake_write"
    /\ handlers' = [handlers EXCEPT ![t] = Idle]
    /\ members' = [members EXCEPT ![handlers[t].author] = mistake_member(@)]
    /\ timers' = schedule_busy_work(timers)
    /\ UNCHANGED <<config, config_file, single_player, busy, cached_words,
                   participating_users, history, used_words, whitelist, blacklist,
                   word_cache, last>>

\* the command force_dump
force_dump(not_found) ==
    /\ last = NoObservation
    /\ busy' = 0
    /\ do_busy_work(0, not_found)
    /\ UNCHANGED <<single_player, timers, history, members, used_words, whitelist,
                   blacklist, last, handlers>>

\* the bot resumes the files of an earlier run, in multi-player mode
InitTasks ==
    /\ busy = 0
    /\ timers = 0
    /\ cached_words = {}
    /\ participating_users = {}
    /\ history = [m \in Players |-> <<>>]
    /\ whitelist = {}
    /\ blacklist = {}
    /\ last = NoObservation
    /\ handlers = [t \in Tasks |-> Idle]
    /\ single_player = FALSE
    /\ config_file = ResumedConfig
    /\ config = config_file
    /\ members = [m \in Players |->
                    IF m = 1 THEN [exists |-> TRUE, score |-> 2, correct |-> 2,
                                   wrong |-> 0, karma |-> 6]
                    ELSE NoRow]
    /\ used_words = {apple}
    /\ word_cache = Rows({apple, eagle}, "en")

\* the messages delivered to the tasks
TaskMessages == Players \X {GAME_CHANNEL} \X {eagle, zz}

NextTasks ==
    \/ \E t \in Tasks : \E msg \in TaskMessages : Receive(t, msg[1], msg[2], msg[3])
    \/ \E t \in Tasks : EnsureMember(t)
    \/ \E t \in Tasks : \E response \in PlayResponses(handlers[t].word) : Decide(t, response)
    \/ \E t \in Tasks : AcceptWrite(t)
    \/ \E t \in Tasks : MistakeWrite(t)
    \/ \E not_found \in BOOLEAN : TimerFire(not_found)
    \/ \E not_found \in BOOLEAN : force_dump(not_found)

SpecTasks == InitTasks /\ [][NextTasks]_vars

(***************************************************************************)
(* Properties of the submission pipeline                                   *)
(***************************************************************************)
\* the step is a handler run; last' describes it
Ran == last = NoObservation /\ last' # NoObservation

\* the word passes the character, length, blacklist and repetition checks
PassesSoftChecks(word) ==
    /\ LegalCharacters(word)
    /\ Len(word) >= 2
    /\ ~Blacklisted(word)
    /\ word \notin used_words

ChainUnchanged ==
    /\ config'.current_count = config.current_count
    /\ config'.current_word = config.current_word
    /\ config'.current_member_id = config.current_member_id
    /\ config'.high_score = config.high_score

\* C1: an accepted submission increments current_count by exactly 1, makes
\* the submitted word the current word and the author the holder, and sets
\* high_score to max(previous high_score, new count); from apple / 4 / 10
\* the word elephant gives elephant / 5 / 10.
C1_AcceptAdvancesChain ==
    [][ (Ran /\ last'.verdict = "accepted") =>
          /\ config'.current_count = config.current_count + 1
          /\ config'.current_word = last'.word
          /\ config'.current_member_id = last'.author
          /\ config'.high_score = Max(config.high_score, config.current_count + 1)
          /\ ( (/\ config.current_word = apple
                /\ config.current_count = 4
                /\ config.high_score = 10
                /\ last'.word = elephant)
               => (config'.current_count = 5 /\ config'.high_score = 10) ) ]_vars

C1_Witness ==
    /\ last.verdict = "accepted"
    /\ last.word = elephant
    /\ last.author = 2
    /\ config.current_word = elephant
    /\ config.current_count = 5
    /\ config.high_score = 10
    /\ config.current_member_id = 2

\* C2: with single-player mode off, a submission that passes the character,
\* length, blacklist and repetition checks and whose author is the current
\* holder is a turn-order mistake, whatever its first letter or its lookup
\* result, and current_count becomes 0; with single-player mode on, the
\* turn-order check rejects nothing.
C2_TurnOrder ==
    [][ Ran =>
          /\ ( (/\ ~single_player
                /\ last'.verdict \notin Ignored
                /\ PassesSoftChecks(last'.word)
                /\ config.current_member_id = last'.author)
               => (last'.verdict = "wrong_member" /\ config'.current_count = 0) )
          /\ (single_player => last'.verdict # "wrong_member") ]_vars

C2_Witness ==
    /\ ~single_player
    /\ last.verdict = "wrong_member"
    /\ last.word = eagle
    /\ last.author = 1
    /\ config.current_word = apple
    /\ config.current_member_id = 1
    /\ config.current_count = 0
    /\ config.high_score = 10

C4_Mistake ==
    [][ (Ran /\ last'.verdict \in Mistakes) =>
          /\ config'.current_count = 0
          /\ config'.failed_member_id =
                IF failed_role(config) THEN last'.author ELSE config.failed_member_id
          /\ members'[last'.author].exists
          /\ members'[last'.author].score = members[last'.author].score - 1
          /\ members'[last'.author].wrong = members[last'.author].wrong + 1
          /\ members'[last'.author].correct = members[last'.author].correct
          /\ members'[last'.author].karma =
                Max(0, members[last'.author].karma - MISTAKE_PENALTY)
          /\ members'[last'.author].karma >= 0
          /\ config'.current_word = config.current_word
          /\ config'.current_member_id = config.current_member_id
          /\ config'.high_score = config.high_score ]_vars

C4_Witness ==
    /\ last.verdict = "wrong_letter"
    /\ last.word = zz
    /\ last.author = 2
    /\ config.failed_member_id = 2
    /\ config.current_count = 0
    /\ config.current_word = apple
    /\ config.current_member_id = 1
    /\ members[2].score = -1
    /\ members[2].wrong = 1
    /\ members[2].karma = 0

\* C5: a one-letter word of legal characters sent by a member in the game
\* channel always gets the single-letter warning, and that run changes
\* nothing: chain state, member rows, used words, the pending-work counter
\* and everything else stay as they were.
C5_SingleLetter ==
    [][ Ran =>
          /\ ( (/\ Len(last'.word) = 1
                /\ LegalCharacters(last'.word)
                /\ last'.verdict \notin {"own_message", "other_channel"})
               => last'.verdict = "single_letter" )
          /\ ( last'.verdict = "single_letter"
               => UNCHANGED <<config, config_file, busy, timers, cached_words,
                              participating_users, history, members, used_words,
                              whitelist, blacklist, word_cache>> ) ]_vars

C5_Witness ==
    /\ last.verdict = "single_letter"
    /\ Len(last.word) = 1
    /\ last.author = config.current_member_id
    /\ ~single_player
    /\ config.current_count = 4

\* the author's counters are what they were (a row that did not exist
\* counts as a row of zeros)
AuthorCountersUnchanged ==
    /\ members'[last'.author].score = members[last'.author].score
    /\ members'[last'.author].correct = members[last'.author].correct
    /\ members'[last'.author].wrong = members[last'.author].wrong
    /\ members'[last'.author].karma = members[last'.author].karma

\* the run got past the checks that ignore a message and the length check
Processed == last'.verdict \notin Ignored \cup {"single_letter"}

\* C6: a word that is on the server whitelist is never rejected as
\* blacklisted, also when it is on a blacklist or is a three-letter word
\* outside the global three-letter whitelist, and the run neither starts nor
\* resolves a lookup for it.
C6_WhitelistSuppresses ==
    [][ (Ran /\ Processed /\ last'.word \in whitelist) =>
          /\ last'.verdict # "blacklisted"
          /\ ~last'.query_started
          /\ ~last'.query_resolved
          /\ last'.future_result = NO_FUTURE
          /\ last'.verdict \notin {"not_exists", "error"} ]_vars

C6_Witness ==
    /\ last.verdict = "accepted"
    /\ last.word = cat
    /\ cat \in whitelist
    /\ cat \notin Spellings(word_cache)
    /\ Len(cat) = 3
    /\ cat \notin GLOBAL_WHITELIST_3_LETTER_WORDS
    /\ ~last.query_started
    /\ config.current_word = cat

\* C7: a processed word that is not on the server whitelist and is on a
\* global blacklist, or is a three-letter word outside the global
\* three-letter whitelist, or is on the server blacklist, is rejected as
\* blacklisted: current_count, current_word, holder, high_score and the
\* author's score, wrong count and karma stay as they were and no lookup is
\* started, whoever the author is and whatever the first letter.
C7_BlacklistedIsSoft ==
    [][ (/\ Ran
         /\ Processed
         /\ last'.word \notin whitelist
         /\ \/ last'.word \in GLOBAL_BLACKLIST_2_LETTER_WORDS
            \/ last'.word \in GLOBAL_BLACKLIST_N_LETTER_WORDS
            \/ (Len(last'.word) = 3 /\ last'.word \notin GLOBAL_WHITELIST_3_LETTER_WORDS)
            \/ last'.word \in blacklist)
        => /\ last'.verdict = "blacklisted"
           /\ ChainUnchanged
           /\ AuthorCountersUnchanged
           /\ ~last'.query_started
           /\ busy' = busy ]_vars

C7_Witness ==
    /\ last.verdict = "blacklisted"
    /\ last.word = cat
    /\ ~single_player
    /\ last.author = config.current_member_id
    /\ config.current_word = apple
    /\ config.current_count = 4
    /\ config.high_score = 10
    /\ members[last.author].score = 2
    /\ members[last.author].karma = 6

\* C8: a processed word that is not rejected as blacklisted and is already
\* among the used words is rejected as repeated: current_count,
\* current_word, holder, high_score and the author's score and karma stay as
\* they were, whoever the author is, whatever the first letter and whatever
\* the lookup would answer; the lookup is not resolved.
C8_RepeatedIsSoft ==
    [][ (/\ Ran
         /\ Processed
         /\ last'.verdict # "blacklisted"
         /\ last'.word \in used_words)
        => /\ last'.verdict = "repeated"
           /\ ChainUnchanged
           /\ AuthorCountersUnchanged
           /\ ~last'.query_resolved
           /\ used_words' = used_words
           /\ busy' = busy ]_vars

C8_Witness ==
    /\ last.verdict = "repeated"
    /\ ~single_player
    /\ last.author = config.current_member_id
    /\ config.current_word # NoWord
    /\ FirstLetter(last.word) # LastLetter(config.current_word)
    /\ last.future_result = API_RESPONSE_WORD_DOESNT_EXIST
    /\ config.current_count > 0

\* every variable of the program is what it was
NoStateMutation ==
    UNCHANGED <<config, config_file, single_player, busy, timers, cached_words,
                participating_users, history, members, used_words, whitelist,
                blacklist, word_cache>>

\* C9 as stated: a run whose lookup resolves to Error changes no state at all
\* (the existence of the author's row included), and every run with another
\* outcome changes some state.
C9_AsStated ==
    [][ Ran =>
          /\ (last'.verdict = "error" => NoStateMutation)
          /\ (last'.verdict # "error" => ~NoStateMutation) ]_vars

\* C9: a run whose lookup resolves to Error leaves the configuration, the
\* used words, the histories, the pending cache additions, the word cache,
\* the lists, the other members' rows and the author's score, correct,
\* wrong and karma as they were and the pending-work counter at its prior
\* value; what it does change is the author's row, which exists afterwards,
\* and the set of participating users, which holds the author afterwards.
\* The runs that change nothing at all are the ignored messages and the
\* single-letter warning; an accepted word and a mistake always change the
\* author's row.
C9_ErrorLeavesGameState ==
    [][ Ran =>
          /\ ( last'.verdict = "error" =>
                 /\ last'.query_resolved
                 /\ UNCHANGED <<config, config_file, timers, cached_words, history,
                                used_words, whitelist, blacklist, word_cache>>
                 /\ busy' = busy
                 /\ AuthorCountersUnchanged
                 /\ members'[last'.author].exists
                 /\ \A m \in Players \ {last'.author} : members'[m] = members[m]
                 /\ participating_users' = participating_users \cup {last'.author} )
          /\ ( last'.verdict \in Ignored \cup {"single_letter"} => NoStateMutation )
          /\ ( last'.verdict \in Mistakes \cup {"accepted"}
                 => (members'[last'.author] # members[last'.author] /\ busy' # busy) ) ]_vars

C9_Witness ==
    /\ last.verdict = "error"
    /\ last.future_result = API_RESPONSE_ERROR
    /\ last.author = 2
    /\ last.word = elephant
    /\ members[2] = NewRow
    /\ participating_users = {2}
    /\ config = ResumedConfig
    /\ busy = 0

\* C10 as stated: with current word apple, count 4 and high score 10, a run
\* on zz whose lookup answers Error changes no state and current_count
\* stays 4.
C10_AsStated ==
    [][ (/\ Ran
         /\ config.current_word = apple
         /\ config.current_count = 4
         /\ config.high_score = 10
         /\ last'.word = zz
         /\ last'.future_result = API_RESPONSE_ERROR)
        => (config' = config /\ config'.current_count = 4) ]_vars

\* C10: with current word apple, count 4 and high score 10, a run on zz
\* whose lookup answers Error never asks the lookup for its answer: zz does
\* not start with e, so the run is a mistake (turn order for the holder
\* with single-player mode off, starting letter otherwise) and current_count
\* becomes 0; a run in that state that does end on the Error answer is one
\* on a word starting with e, and it leaves current_count at 4 and the
\* configuration as it was.
C10_ErrorAfterLetterCheck ==
    [][ (/\ Ran
         /\ config.current_word = apple
         /\ config.current_count = 4
         /\ config.high_score = 10)
        => /\ ( (last'.word = zz /\ last'.future_result = API_RESPONSE_ERROR)
                => /\ last'.verdict \in {"wrong_member", "wrong_letter"}
                   /\ (last'.verdict = "wrong_member"
                         <=> (~single_player /\ last'.author = config.current_member_id))
                   /\ ~last'.query_resolved
                   /\ config'.current_count = 0
                   /\ config'.current_word = apple
                   /\ config'.high_score = 10 )
           /\ ( last'.verdict = "error"
                => /\ FirstLetter(last'.word) = "e"
                   /\ config' = config
                   /\ config'.current_count = 4 ) ]_vars

C10_Witness ==
    /\ last.verdict = "wrong_letter"
    /\ last.word = zz
    /\ last.future_result = API_RESPONSE_ERROR
    /\ ~last.query_resolved
    /\ config.current_word = apple
    /\ config.current_count = 0
    /\ config.high_score = 10

\* C11: the outcome of a run in the game channel is that of the first check
\* that fails in the order characters, length, blacklist unless whitelisted,
\* repetition, turn order, starting letter, lookup answer; the lookup answer
\* decides only when every earlier check passes and the word is neither
\* whitelisted nor cached.
C11_StrictOrder ==
    [][ (Ran /\ last'.verdict \notin {"own_message", "other_channel"}) =>
          LET w == last'.word
              a == last'.author
          IN  /\ last'.verdict =
                   IF \E i \in 1..Len(w) : w[i] \notin POSSIBLE_CHARACTERS THEN "illegal"
                   ELSE IF Len(w) = 0 THEN "empty"
                   ELSE IF Len(w) = 1 THEN "single_letter"
                   ELSE IF /\ w \notin whitelist
                           /\ \/ w \in GLOBAL_BLACKLIST_2_LETTER_WORDS
                              \/ w \in GLOBAL_BLACKLIST_N_LETTER_WORDS
                              \/ (Len(w) = 3 /\ w \notin GLOBAL_WHITELIST_3_LETTER_WORDS)
                              \/ w \in blacklist
                        THEN "blacklisted"
                   ELSE IF w \in used_words THEN "repeated"
                   ELSE IF ~single_player /\ config.current_member_id = a THEN "wrong_member"
                   ELSE IF /\ config.current_word # NoWord
                           /\ w[1] # config.current_word[Len(config.current_word)]
                        THEN "wrong_letter"
                   ELSE IF last'.future_result = API_RESPONSE_WORD_DOESNT_EXIST
                        THEN "not_exists"
                   ELSE IF last'.future_result = API_RESPONSE_ERROR THEN "error"
                   ELSE "accepted"
              /\ ( last'.verdict \in {"not_exists", "error"}
                   => (w \notin whitelist /\ w \notin Spellings(word_cache)) ) ]_vars

C11_Witness ==
    /\ last.verdict = "blacklisted"
    /\ last.word \in used_words
    /\ ~single_player
    /\ last.author = config.current_member_id
    /\ config.current_word # NoWord
    /\ FirstLetter(last.word) # LastLetter(config.current_word)

\* C14: whatever words were accepted and whatever mistakes were made, no
\* member row holds a karma below zero.
C14_KarmaFloor == \A m \in Players : members[m].karma >= 0

\* a first accepted word with a negative karma delta leaves karma at 0
C14_Witness ==
    /\ last.verdict = "accepted"
    /\ calculate_base_karma(last.word) < 0
    /\ members[last.author].correct = 1
    /\ members[last.author].wrong = 0
    /\ members[last.author].karma = 0

(***************************************************************************)
(* Properties of the tasks and of the deferred busy work                   *)
(***************************************************************************)
\* the step is the end of a sleep of schedule_busy_work
TimerFired == timers' = timers - 1

\* do_busy_work did not run its body, or had nothing to do
NoFlush == UNCHANGED <<config, config_file, participating_users, cached_words, word_cache>>

\* the counter is the number of submissions that incremented it and have
\* not decremented it yet
CounterExact == busy = timers + Cardinality(InFlight)

\* C12 as stated: the handlers of the channel run one after the other, so no
\* handler decides on used words or chain state that another handler in
\* flight has yet to write; in particular no two handlers are at the writes
\* of an accepted submission of the same word.
C12_AsStated ==
    \A t1 \in Tasks : \A t2 \in Tasks \ {t1} :
        ~ ( /\ handlers[t1].pc = "accept_write"
            /\ handlers[t2].pc = "accept_write"
            /\ handlers[t1].word = handlers[t2].word )

\* C13 as stated: when the insert into used_words of an accepted submission
\* fails, nothing of that submission is visible afterwards: the member rows
\* and the used words are as before and the chain state does not show the
\* submission's word and author.
C13_AsStated ==
    [][ \A t \in Tasks :
          ( /\ handlers[t].pc = "accept_write"
            /\ handlers'[t].pc = "idle"
            /\ handlers[t].word \in used_words )
          => /\ members' = members
             /\ used_words' = used_words
             /\ ~ ( /\ config'.current_word = handlers[t].word
                    /\ config'.current_member_id = handlers[t].author ) ]_vars

\* C15 as stated: the end of a sleep decrements the counter and runs the
\* flush only if the counter is then 0; while another submission is in
\* flight or waits on its own sleep, the end of a sleep flushes nothing.
C15_AsStated ==
    [][ TimerFired =>
          /\ busy' = busy - 1
          /\ (busy' # 0 => NoFlush)
          /\ ((timers' > 0 \/ InFlight # {}) => NoFlush) ]_vars

\* C16 as stated: at most one sleep of schedule_busy_work is outstanding at
\* any time.
C16_AsStated == timers <= 1

\* C16: a submission increments the counter when it is received; the end of
\* a mistake or of an accepted word whose writes succeed starts a sleep of
\* its own, whatever the number of sleeps already outstanding, and leaves
\* the counter alone; a soft rejection, a lookup Error and an accepted word
\* whose insert fails start none.
C16_TimerPerSubmission ==
    [][ \A t \in Tasks :
          /\ ( (handlers[t].pc = "idle" /\ handlers'[t].pc # "idle")
               => (busy' = busy + 1 /\ timers' = timers) )
          /\ ( (handlers[t].pc = "checks" /\ handlers'[t].pc = "idle")
               => (busy' = busy - 1 /\ timers' = timers) )
          /\ ( (handlers[t].pc = "mistake_write" /\ handlers'[t].pc = "idle")
               => (busy' = busy /\ timers' = timers + 1) )
          /\ ( (handlers[t].pc = "accept_write" /\ handlers'[t].pc = "idle")
               => /\ busy' = busy
                  /\ timers' = IF handlers[t].word \in used_words
                               THEN timers ELSE timers + 1 ) ]_vars

\* two sleeps are outstanding, one for each of two submissions
C16_Witness ==
    /\ timers = 2
    /\ busy = 2
    /\ InFlight = {}
    /\ config.current_count = 0
    /\ eagle \in used_words

\* C17 as stated: once nothing is in flight and no sleep is outstanding,
\* every accepted word and every mistake has been flushed: the config file
\* holds the configuration and no cache addition is pending.
C17_AsStated ==
    (InFlight = {} /\ timers = 0) => (config_file = config /\ cached_words = {})

\* C18 as stated: the counter equals the number of submissions in flight or
\* waiting on their sleep, and is never negative.
C18_AsStated == CounterExact /\ busy >= 0

\* C19 as stated: a flush through force_dump of a state that is already
\* flushed leaves the configuration, the config file, the word cache and
\* the pending sets as they are, and a flush through force_dump leaves the
\* counter in step with the submissions in flight and the sleeps
\* outstanding.
C19_AsStated ==
    [][ force_dump(FALSE) =>
          /\ ( ( /\ config_file = config
                 /\ cached_words = {}
                 /\ participating_users = {} )
               => NoFlush )
          /\ ( CounterExact => CounterExact' ) ]_vars

\* C20 as stated: when the pending words are added to the word cache no
\* fault is raised and afterwards the cache contains each of them that is
\* not globally blacklisted, whether it was cached before or not.
C20_AsStated ==
    [][ (cached_words # {} /\ cached_words' = {}) =>
          /\ ~add_to_cache_raises(cached_words)
          /\ \A w \in cached_words :
                ~is_word_blacklisted_global(w) => w \in Spellings(word_cache') ]_vars

(***************************************************************************)
(* The game next to the administrative operations                          *)
(***************************************************************************)
\* the command check_word: the checks of the handler in the same order, a
\* lookup for a word that passes them, and for an existing word the pending
\* set extended by the word and flushed at once by add_to_cache
check_word(content, response) ==
    LET word == Lower(content)
    IN  /\ last = NoObservation
        /\ IF \/ ~LegalCharacters(word)
              \/ Len(content) = 1
              \/ is_word_whitelisted(word, whitelist)
              \/ is_word_blacklisted(word, blacklist)
              \/ is_word_in_cache(word, word_cache)
              \/ get_query_response(response) # API_RESPONSE_WORD_EXISTS
           THEN UNCHANGED <<cached_words, word_cache>>
           ELSE /\ cached_words' = {}
                /\ word_cache' = add_to_cache(cached_words \cup {word}, word_cache)
        /\ UNCHANGED <<config, config_file, single_player, busy, timers,
                       participating_users, history, members, used_words, whitelist,
                       blacklist, last, handlers>>

\* language.py: EN_REGEX, a letter, then letters or hyphens, then a letter
allowed_word_regex(w) ==
    /\ Len(w) >= 2
    /\ w[1] \in POSSIBLE_CHARACTERS \ {"-"}
    /\ w[Len(w)] \in POSSIBLE_CHARACTERS \ {"-"}
    /\ \A i \in 1..Len(w) : w[i] \in POSSIBLE_CHARACTERS

\* str.isupper: there is a cased character and no cased character is in
\* lower case
isupper(w) ==
    /\ \E i \in 1..Len(w) : w[i] \in {"E", "A"}
    /\ \A i \in 1..Len(w) : w[i] \in {"E", "A", "-", "!"}

\* the columns named by the insert statement of word_import
WordImportColumns == {"word", "language"}

\* the columns of word_cache after revision 38ac9b160eae, whose primary key
\* is (word, language)
WordCacheColumnsMigrated == {"word", "language"}

\* the schemas the statement of word_import can meet: model.py declares the
\* column word only, the revision keys the table on word and language
WordCacheSchemas == {WordCacheColumns, WordCacheColumnsMigrated}

accepted_words_keeps_uppercase(words) ==
    {Lower(w) : w \in {x \in words : allowed_word_regex(Lower(x))}}

\* word_import.py, line 23
accepted_words(words) ==
    {Lower(w) : w \in {x \in words : allowed_word_regex(Lower(x)) /\ ~isupper(x)}}

\* word_import.main: every accepted word of the source list is inserted with
\* the code of the language and OR IGNORE, and the batch is committed after
\* the last statement; against a table without one of the named columns the
\* first statement raises and nothing is committed
word_import(words, columns, language) ==
    /\ last = NoObservation
    /\ word_cache' = IF WordImportColumns \subseteq columns
                     THEN word_cache \cup Rows(accepted_words(words), language)
                     ELSE word_cache
    /\ UNCHANGED <<config, config_file, single_player, busy, timers, cached_words,
                   participating_users, history, members, used_words, whitelist,
                   blacklist, last, handlers>>

\* purge_data server: the used words, the members and both lists of the
\* guild are deleted and its configuration is reset and written back
clean_server(guild_id) ==
    /\ last = NoObservation
    /\ IF guild_id = GUILD
       THEN /\ used_words' = {}
            /\ members' = [m \in Players |-> NoRow]
            /\ blacklist' = {}
            /\ whitelist' = {}
            /\ config' = DefaultConfig
            /\ config_file' = config'
       ELSE UNCHANGED <<used_words, members, blacklist, whitelist, config, config_file>>
    /\ UNCHANGED <<single_player, busy, timers, cached_words, participating_users,
                   history, word_cache, last, handlers>>

\* the tokens of the source word list
ImportSource == {ze, <<"E", "a", "g", "l", "e">>, <<"E", "A">>, <<"z", "e", "-">>}

\* the source word lists that are imported
ImportLists ==
    { ImportSource,
      {ze, <<"z", "e", "-">>},
      {<<"E", "a", "g", "l", "e">>, <<"E", "A">>} }

\* the words given to check_word
CheckContents == {elephant, cat, ze, <<"E", "a", "g", "l", "e">>, <<"e">>}

\* the messages of the game played next to the commands
AdminMessages == Players \X {GAME_CHANNEL} \X {eagle, elephant}

NextAdmin ==
    \/ \E msg \in AdminMessages :
          \E response \in PlayResponses(Lower(msg[3])) :
             OnMessage(msg[1], msg[2], msg[3], response)
    \/ Return
    \/ \E not_found \in BOOLEAN : TimerFire(not_found)
    \/ \E content \in CheckContents :
          \E response \in PlayResponses(Lower(content)) : check_word(content, response)
    \/ \E words \in ImportLists :
          \E columns \in WordCacheSchemas :
             \E language \in Languages : word_import(words, columns, language)
    \/ \E guild_id \in {GUILD, OTHER_GUILD} : clean_server(guild_id)

SpecAdmin == Init /\ [][NextAdmin]_vars

\* C21: the word cache never holds a globally blacklisted word, whatever
\* flushes of accepted words, check_word additions and bulk imports ran.
C21_AsStated == \A w \in Spellings(word_cache) : ~is_word_blacklisted_global(w)

(***************************************************************************)
(* Properties of the cache and of the lookup                               *)
(***************************************************************************)
\* C22: a run for a word found in the word cache starts no lookup, and a
\* run that starts a lookup is a run for a word that is neither on the
\* server whitelist nor in the word cache and was not rejected as
\* blacklisted.  (No run changes the whitelist or the cache, so the state
\* after the run shows the tables the run read.)
C22_CacheHitShortCircuits ==
    last # NoObservation =>
        /\ last.word \in Spellings(word_cache) => ~last.query_started
        /\ last.query_started =>
              /\ last.word \notin whitelist
              /\ last.word \notin Spellings(word_cache)
              /\ last.verdict # "blacklisted"

C22_Witness ==
    /\ last.verdict = "accepted"
    /\ last.word = eagle
    /\ eagle \in Spellings(word_cache)
    /\ eagle \notin whitelist
    /\ ~last.query_started
    /\ last.future_result = NO_FUTURE

\* C23: an accepted word is recorded as used, and it is put on the pending
\* set of the cache only by a run that resolved a lookup for it: a run that
\* accepts a whitelisted or an already cached word leaves the pending set
\* and the cache as they were.
C23_AsStated ==
    [][ (Ran /\ last'.verdict = "accepted") =>
          /\ last'.word \in used_words'
          /\ ~last'.query_resolved =>
                /\ cached_words' = cached_words
                /\ word_cache' = word_cache ]_vars

(***************************************************************************)
(* The functions of Bot called on their own                                *)
(***************************************************************************)
\* no call has been made
NoCall ==
    [ fn |-> "none", word |-> NoWord, response |-> NoResponse, server_id |-> NoId,
      connection |-> FALSE, last_words |-> <<>>, result |-> NO_FUTURE ]

\* Bot.get_query_response(future) for the future of a query of word
call_get_query_response(word, response) ==
    /\ last' = [ fn |-> "get_query_response", word |-> word, response |-> response,
                 server_id |-> NoId, connection |-> FALSE, last_words |-> <<>>,
                 result |-> get_query_response(response) ]
    /\ UNCHANGED <<config, config_file, single_player, busy, timers, cached_words,
                   participating_users, history, members, used_words, whitelist,
                   blacklist, word_cache, handlers>>

\* Bot.is_word_blacklisted(word, server_id, connection): the server
\* blacklist is read only when both optional arguments are given
call_is_word_blacklisted(word, server_id, connection) ==
    /\ last' = [ fn |-> "is_word_blacklisted", word |-> word, response |-> NoResponse,
                 server_id |-> server_id, connection |-> connection,
                 last_words |-> <<>>,
                 result |-> IF server_id = NoId \/ ~connection
                            THEN is_word_blacklisted_global(word)
                            ELSE is_word_blacklisted(word, blacklist) ]
    /\ UNCHANGED <<config, config_file, single_player, busy, timers, cached_words,
                   participating_users, history, members, used_words, whitelist,
                   blacklist, word_cache, handlers>>

\* the words the functions are called on
CallWords == {eagle, zz, cat, tea, ze}

\* the bot at rest on the files of an earlier run, with any server blacklist
InitCalls ==
    /\ busy = 0
    /\ timers = 0
    /\ cached_words = {}
    /\ participating_users = {}
    /\ history = [m \in Players |-> <<>>]
    /\ whitelist = {}
    /\ blacklist \in SUBSET {eagle, cat}
    /\ last = NoCall
    /\ handlers = [t \in Tasks |-> Idle]
    /\ single_player = FALSE
    /\ config_file = ResumedConfig
    /\ config = config_file
    /\ members = [m \in Players |-> NoRow]
    /\ used_words = {apple}
    /\ word_cache = Rows({apple, eagle}, "en")

NextCalls ==
    \/ \E word \in CallWords : \E response \in Responses(word) :
          call_get_query_response(word, response)
    \/ \E word \in CallWords : \E server_id \in {NoId, GUILD} : \E connection \in BOOLEAN :
          call_is_word_blacklisted(word, server_id, connection)

SpecCalls == InitCalls /\ [][NextCalls]_vars

\* the first field and the list of matches of a payload of the documented
\* shape
WellFormed(r) ==
    /\ r.parsed
    /\ r.data.t = "list"
    /\ \A i \in 1..Len(r.data.v) :
          IF i = 2
          THEN /\ r.data.v[i].t = "list"
               /\ \A k \in 1..Len(r.data.v[i].v) : r.data.v[i].v[k].t = "str"
          ELSE r.data.v[i].t = "str"

\* C24: get_query_response returns one of the three results; a status code
\* of 400 or more, a timeout and every malformed payload give Error; a
\* payload with fewer than two fields or with an empty list of matches gives
\* NotExists; a best match equal to the queried word up to case gives Exists
\* and any other best match gives NotExists.
C24_AsStated ==
    last.fn = "get_query_response" =>
        LET r == last.response
        IN  /\ last.result \in {API_RESPONSE_WORD_EXISTS, API_RESPONSE_WORD_DOESNT_EXIST,
                                API_RESPONSE_ERROR}
            /\ (r.timeout \/ r.status_code >= 400 \/ ~WellFormed(r)) =>
                  last.result = API_RESPONSE_ERROR
            /\ (~r.timeout /\ r.status_code < 400 /\ WellFormed(r)) =>
                  IF Len(r.data.v) < 2 \/ Len(r.data.v[2].v) = 0
                  THEN last.result = API_RESPONSE_WORD_DOESNT_EXIST
                  ELSE IF Lower(r.data.v[2].v[1].v) = Lower(last.word)
                  THEN last.result = API_RESPONSE_WORD_EXISTS
                  ELSE last.result = API_RESPONSE_WORD_DOESNT_EXIST

\* C27: is_word_blacklisted is true exactly when the word is on the global
\* two-letter or n-letter blacklist, or has three letters and is not on the
\* global three-letter whitelist, or, when both the server id and the
\* connection are given, is on the blacklist of the server; without them the
\* result is that of the global lists whatever the server blacklist holds.
C27_BlacklistedExactly ==
    last.fn = "is_word_blacklisted" =>
        last.result =
            ( \/ last.word \in GLOBAL_BLACKLIST_2_LETTER_WORDS
              \/ last.word \in GLOBAL_BLACKLIST_N_LETTER_WORDS
              \/ Len(last.word) = 3 /\ last.word \notin GLOBAL_WHITELIST_3_LETTER_WORDS
              \/ last.server_id # NoId /\ last.connection /\ last.word \in blacklist )

C27_Witness ==
    /\ last.fn = "is_word_blacklisted"
    /\ last.word = eagle
    /\ eagle \in blacklist
    /\ last.server_id = GUILD
    /\ ~last.connection
    /\ last.result = FALSE

(***************************************************************************)
(* Properties of the reactions                                             *)
(***************************************************************************)
\* C25: the accepted word whose new count equals high_score while
\* put_high_score_emoji is clear gets the high-score reaction and sets the
\* flag; every other accepted word gets a round-number reaction or the
\* generic one and leaves a set flag set, so the high-score reaction is
\* given at most once between two mistakes; a mistake clears the flag.
C25_AsStated ==
    [][ Ran =>
          /\ last'.verdict = "accepted" =>
                IF config'.current_count = config'.high_score
                   /\ ~config.put_high_score_emoji
                THEN /\ last'.reaction = "high_score"
                     /\ config'.put_high_score_emoji
                ELSE /\ last'.reaction \in {"100", "69", "666", "generic"}
                     /\ config'.put_high_score_emoji = config.put_high_score_emoji
          /\ last'.verdict \in Mistakes => ~config'.put_high_score_emoji ]_vars

(***************************************************************************)
(* Properties of the used words                                            *)
(***************************************************************************)
\* C26: every step other than the purge of the server keeps the used words
\* that were there, whatever the outcome of a submission, and a processed
\* word that is among them and is not rejected as blacklisted is rejected as
\* repeated, also after the chain was broken.
C26_UsedWordsOnlyGrow ==
    [][ \/ \E guild_id \in {GUILD, OTHER_GUILD} : clean_server(guild_id)
        \/ /\ used_words \subseteq used_words'
           /\ (Ran /\ last'.verdict \in Mistakes) => used_words' = used_words
           /\ (Ran /\ Processed /\ last'.verdict # "blacklisted"
                   /\ last'.word \in used_words) => last'.verdict = "repeated" ]_vars

C26_Witness ==
    /\ last.verdict = "repeated"
    /\ last.word = eagle
    /\ eagle \in used_words
    /\ config.current_word = eagle
    /\ config.current_count = 0
    /\ members[1].wrong + members[2].wrong > 0

(***************************************************************************)
(* The karma of a word against the history of its author                   *)
(***************************************************************************)
\* lines 466-469: the karma of the word against the last words of the
\* author, and the word appended to them
score(author, word) ==
    /\ last' = [ fn |-> "calculate_total_karma", word |-> word, response |-> NoResponse,
                 server_id |-> NoId, connection |-> FALSE,
                 last_words |-> history[author],
                 result |-> calculate_total_karma(word, history[author]) ]
    /\ history' = [history EXCEPT ![author] = deque_append(@, word)]
    /\ UNCHANGED <<config, config_file, single_player, busy, timers, cached_words,
                   participating_users, members, used_words, whitelist, blacklist,
                   word_cache, handlers>>

\* the words that are scored: two that end in e, one that ends in t and one
\* of negative base karma
KarmaWords == {apple, eagle, cat, zz}

\* the bot at rest with empty histories
InitKarma ==
    /\ busy = 0
    /\ timers = 0
    /\ cached_words = {}
    /\ participating_users = {}
    /\ history = [m \in Players |-> <<>>]
    /\ whitelist = {}
    /\ blacklist = {}
    /\ last = NoCall
    /\ handlers = [t \in Tasks |-> Idle]
    /\ single_player = FALSE
    /\ config_file = ResumedConfig
    /\ config = config_file
    /\ members = [m \in Players |-> NoRow]
    /\ used_words = {apple}
    /\ word_cache = Rows({apple, eagle}, "en")

NextKarma == \E word \in KarmaWords : score(1, word)

SpecKarma == InitKarma /\ [][NextKarma]_vars

\* the history without its entry i
Without(h, i) == [k \in 1..(Len(h) - 1) |-> IF k < i THEN h[k] ELSE h[k + 1]]

\* C28: a word of negative base karma is scored the same against every
\* history, the ones that hold the word included: its base karma, which is
\* also its score against the empty history.
C28_NegativeIgnoresHistory ==
    (last.fn = "calculate_total_karma" /\ calculate_base_karma(last.word) < 0) =>
        /\ last.result = calculate_base_karma(last.word)
        /\ last.result = calculate_total_karma(last.word, <<>>)

C28_Witness ==
    /\ last.fn = "calculate_total_karma"
    /\ last.word = zz
    /\ Len(last.last_words) = HISTORY_LENGTH
    /\ \E i \in 1..Len(last.last_words) : last.last_words[i] = zz
    /\ \E i \in 1..Len(last.last_words) : last.last_words[i] # zz
    /\ last.result < 0

C30_StartEarlyResolveLate ==
    [][ (/\ Ran
         /\ Processed
         /\ last'.verdict # "blacklisted"
         /\ last'.word \notin whitelist
         /\ last'.word \notin Spellings(word_cache))
        => /\ last'.query_started
           /\ last'.future_result # NO_FUTURE
           /\ last'.query_resolved =>
                 /\ ~Repeated(last'.word)
                 /\ ~WrongMember(last'.author)
                 /\ ~WrongLetter(last'.word)
           /\ last'.verdict \in {"repeated", "wrong_member", "wrong_letter"} =>
                 ~last'.query_resolved ]_vars

C30_Witness ==
    /\ last.verdict = "repeated"
    /\ last.word = elephant
    /\ elephant \notin Spellings(word_cache)
    /\ elephant \notin whitelist
    /\ last.query_started
    /\ ~last.query_resolved
    /\ last.future_result = API_RESPONSE_WORD_EXISTS

(***************************************************************************)
(* The bulk import and the languages                                       *)
(***************************************************************************)
\* the words a word_import step of the language has stored
Imported == word_cache' \ word_cache

\* C32: a bulk import stores the lower-cased form of a source token for the
\* language of the import exactly if that form matches the allowed-word
\* pattern and the token is not all upper case; every word it stores has at
\* least two characters and neither starts nor ends with a hyphen; the
\* batch reaches the table in one step.
C32_ImportStoresAllowedWords ==
    [][ \A words \in ImportLists : \A language \in Languages :
          ( /\ word_cache' # word_cache
            /\ word_import(words, WordCacheColumnsMigrated, language) ) =>
             /\ \A token \in words :
                   ( [word |-> Lower(token), language |-> language] \in word_cache' )
                   <=> \/ [word |-> Lower(token), language |-> language] \in word_cache
                       \/ \E other \in words :
                             /\ Lower(other) = Lower(token)
                             /\ allowed_word_regex(Lower(other))
                             /\ \E i \in 1..Len(other) : other[i] \notin {"E", "A", "-"}
             /\ \A row \in Imported :
                   /\ row.language = language
                   /\ \E token \in words : Lower(token) = row.word
                   /\ Len(row.word) >= 2
                   /\ row.word[1] # "-"
                   /\ row.word[Len(row.word)] # "-" ]_vars

C32_Witness ==
    /\ [word |-> ze, language |-> "de"] \in word_cache
    /\ [word |-> eagle, language |-> "de"] \in word_cache
    /\ <<"e", "a">> \notin Spellings(word_cache)
    /\ <<"z", "e", "-">> \notin Spellings(word_cache)

\* C33 as stated: an import for one language does not make the lookup of
\* the cache report a spelling as present for another language (a spelling
\* the lookup reports after the import and did not report before has a row
\* of that other language), and a spelling stored for one language is
\* stored again for the language of the import.
C33_AsStated ==
    [][ \A words \in ImportLists : \A language \in Languages :
          ( /\ word_cache' # word_cache
            /\ word_import(words, WordCacheColumnsMigrated, language) ) =>
             /\ \A other \in Languages \ {language} :
                   \A row \in Imported :
                      ( /\ is_word_in_cache(row.word, word_cache')
                        /\ ~is_word_in_cache(row.word, word_cache) )
                      => [word |-> row.word, language |-> other] \in word_cache'
             /\ \A w \in accepted_words(words) :
                   [word |-> w, language |-> language] \in word_cache' ]_vars

(***************************************************************************)
(* The game next to the configuration commands                             *)
(***************************************************************************)
\* Config.read, the change of the command, Config.dump_data and
\* Bot.read_config: the configuration is read from the file, changed,
\* written back, and the bot replaces its own by the one of the file
\* (set_roles reloads the roles from the identifiers it then holds)
config_command(changed) ==
    /\ config_file' = changed
    /\ config' = config_file'
    /\ UNCHANGED <<single_player, busy, timers, cached_words, participating_users,
                   history, members, used_words, whitelist, blacklist, word_cache,
                   last, handlers>>

\* permitted: the caller has the permission to ban members
set_channel(permitted, channel) ==
    IF permitted
    THEN /\ last = NoObservation
         /\ config_command([config_file EXCEPT !.channel_id = channel])
    ELSE /\ last = NoObservation
         /\ UNCHANGED vars

set_failed_role(role) ==
    /\ last = NoObservation
    /\ config_command([config_file EXCEPT !.failed_role_id = role])

set_reliable_role(role) ==
    /\ last = NoObservation
    /\ config_command([config_file EXCEPT !.reliable_role_id = role])

remove_failed_role ==
    /\ last = NoObservation
    /\ config_command([config_file EXCEPT !.failed_role_id = NoId,
                                          !.failed_member_id = NoId,
                                          !.correct_inputs_by_failed_member = 0])

remove_reliable_role ==
    /\ last = NoObservation
    /\ config_command([config_file EXCEPT !.reliable_role_id = NoId])

\* a config file left by a run in which member 2 broke a chain and has
\* since had 29 words accepted in the chain that followed
StreakConfig ==
    [ ResumedConfig EXCEPT !.current_count = 58,
                           !.high_score = 60,
                           !.failed_member_id = 2,
                           !.correct_inputs_by_failed_member = 29 ]

InitConfig ==
    /\ busy = 0
    /\ timers = 0
    /\ cached_words = {}
    /\ participating_users = {}
    /\ history = [m \in Players |-> <<>>]
    /\ whitelist = {}
    /\ blacklist = {}
    /\ last = NoObservation
    /\ handlers = [t \in Tasks |-> Idle]
    /\ single_player = FALSE
    /\ \/ /\ config_file = FreshConfig
          /\ members = [m \in Players |-> NoRow]
          /\ used_words = {}
          /\ word_cache = {}
       \/ /\ config_file = StreakConfig
          /\ members = [m \in Players |->
                          IF m = 1 THEN [exists |-> TRUE, score |-> 29, correct |-> 29,
                                         wrong |-> 0, karma |-> 29]
                          ELSE [exists |-> TRUE, score |-> 28, correct |-> 29,
                                wrong |-> 1, karma |-> 23]]
          /\ used_words = {apple}
          /\ word_cache = Rows({apple, eagle}, "en")
    /\ config = config_file

\* the messages of the game played next to the commands
ConfigMessages == Players \X {GAME_CHANNEL} \X {eagle, elephant}

NextConfig ==
    \/ \E msg \in ConfigMessages :
          \E response \in PlayResponses(Lower(msg[3])) :
             OnMessage(msg[1], msg[2], msg[3], response)
    \/ Return
    \/ \E not_found \in BOOLEAN : TimerFire(not_found)
    \/ \E permitted \in BOOLEAN :
          \E channel \in {GAME_CHANNEL, OTHER_CHANNEL} : set_channel(permitted, channel)
    \/ set_failed_role(FAILED_ROLE)
    \/ set_reliable_role(RELIABLE_ROLE)
    \/ remove_failed_role
    \/ remove_reliable_role

SpecConfig == InitConfig /\ [][NextConfig]_vars

\* a step of one of the configuration commands
ConfigCommand ==
    \/ \E channel \in {GAME_CHANNEL, OTHER_CHANNEL} : set_channel(TRUE, channel)
    \/ set_failed_role(FAILED_ROLE)
    \/ set_reliable_role(RELIABLE_ROLE)
    \/ remove_failed_role
    \/ remove_reliable_role

\* C35 as stated: a configuration command leaves the count, the current
\* word, the holder and the high score the bot holds in memory as they were
\* before the command, also when progress of the chain is not yet written
\* to the file.
C35_AsStated ==
    [][ ConfigCommand =>
          /\ config'.current_count = config.current_count
          /\ config'.current_word = config.current_word
          /\ config'.current_member_id = config.current_member_id
          /\ config'.high_score = config.high_score ]_vars

\* C36 as stated: with the single-player mode off no two consecutive
\* accepted words are by the same member, also across a break of the chain:
\* the holder the bot keeps is the author of the latest accepted word (only
\* an accepted word changes it, to its author), and a word is accepted only
\* from another member than the holder.
C36_AsStated ==
    [][ /\ ( Ran /\ last'.verdict = "accepted" /\ ~single_player ) =>
              /\ last'.author # config.current_member_id
              /\ config'.current_member_id = last'.author
        /\ config'.current_member_id # config.current_member_id =>
              ( Ran /\ last'.verdict = "accepted" ) ]_vars

\* the bookkeeping of the failed member in a configuration
FailedMemberBookkeeping(c) ==
    /\ c.correct_inputs_by_failed_member \in 0..(FAILED_ROLE_STREAK - 1)
    /\ c.failed_member_id = NoId => c.correct_inputs_by_failed_member = 0

C40_AsStated ==
    [][ /\ config'.put_high_score_emoji =>
              /\ config'.current_count = config'.high_score
              /\ config'.current_count > 0
        /\ ( config'.put_high_score_emoji /\ ~config.put_high_score_emoji ) =>
              ( Ran /\ last'.verdict = "accepted" )
        /\ ( ~config'.put_high_score_emoji /\ config.put_high_score_emoji ) =>
              ( Ran /\ last'.verdict \in Mistakes ) ]_vars

(***************************************************************************)
(* The high score and the rows of the members                              *)
(***************************************************************************)
\* C37: the high score is never below the count, in memory and in the
\* file, and no run of the handler lowers it: an accepted word raises it to
\* the new count when that is higher, a mistake and every other outcome
\* keep it.
C37_HighScoreBounds ==
    [][ /\ config.high_score >= config.current_count
        /\ config'.high_score >= config'.current_count
        /\ config_file'.high_score >= config_file'.current_count
        /\ Ran =>
              /\ config'.high_score >= config.high_score
              /\ config'.high_score =
                    IF last'.verdict = "accepted"
                    THEN Max(config.high_score, config.current_count + 1)
                    ELSE config.high_score ]_vars

C37_Witness ==
    /\ last.verdict \in Mistakes
    /\ config.current_count = 0
    /\ config.high_score = 1
    /\ config_file.current_count = 1

\* the counters of a row agree
CountersAgree(row) == row.score = row.correct - row.wrong /\ row.karma >= 0

\* C38: for every member the score is the number of correct words minus the
\* number of wrong ones: a row starts at 0 / 0 / 0, an accepted word adds
\* one to score and correct, a mistake takes one from the score and adds
\* one to wrong, no other outcome changes the three, and no run changes the
\* row of another member; the score can be negative, the karma cannot.
C38_ScoreIsCorrectMinusWrong ==
    [][ /\ \A m \in Players : CountersAgree(members[m]) /\ CountersAgree(members'[m])
        /\ Ran =>
              LET a == last'.author
                  d == IF last'.verdict = "accepted" THEN <<1, 1, 0>>
                       ELSE IF last'.verdict \in Mistakes THEN <<-1, 0, 1>>
                       ELSE <<0, 0, 0>>
              IN  /\ \A m \in Players \ {a} : members'[m] = members[m]
                  /\ a \in Players =>
                        /\ members'[a].score = members[a].score + d[1]
                        /\ members'[a].correct = members[a].correct + d[2]
                        /\ members'[a].wrong = members[a].wrong + d[3]
                        /\ members'[a].exists = ( members[a].exists \/ Processed ) ]_vars

C38_Witness ==
    /\ last.verdict \in Mistakes
    /\ last.author = 2
    /\ members[2] = [exists |-> TRUE, score |-> -1, correct |-> 0, wrong |-> 1, karma |-> 0]

(***************************************************************************)
(* A long chain of one member in single-player mode                        *)
(***************************************************************************)
\* two-letter words that chain with the others
ee == <<"e", "e">>

ea == <<"e", "a">>

aa == <<"a", "a">>

ae == <<"a", "e">>

\* the words of the long chain: more than HISTORY_LENGTH of them can be
\* accepted from one member in a row
HistoryContents == {eagle, ee, ea, aa, ae, elephant}

HistoryMessages == {1} \X {GAME_CHANNEL} \X HistoryContents

\* a new game in single-player mode
InitHistory ==
    /\ busy = 0
    /\ timers = 0
    /\ cached_words = {}
    /\ participating_users = {}
    /\ history = [m \in Players |-> <<>>]
    /\ whitelist = {}
    /\ blacklist = {}
    /\ last = NoObservation
    /\ handlers = [t \in Tasks |-> Idle]
    /\ single_player = TRUE
    /\ config_file = FreshConfig
    /\ config = config_file
    /\ members = [m \in Players |-> NoRow]
    /\ used_words = {}
    /\ word_cache = {}

NextHistory ==
    \/ \E msg \in HistoryMessages :
          \E response \in PlayResponses(Lower(msg[3])) :
             OnMessage(msg[1], msg[2], msg[3], response)
    \/ Return
    \/ \E not_found \in BOOLEAN : TimerFire(not_found)

SpecHistory == InitHistory /\ [][NextHistory]_vars

\* C31: the history of a member never holds more than HISTORY_LENGTH
\* words; a run that accepts a word appends it to the history of its
\* author, dropping the oldest word when the history is full, after the
\* karma of the word was computed from the history without it; the
\* histories of the other members, and every history in a run that ends
\* otherwise (soft rejection, mistake, backend fault, ignored message),
\* are left as they were.
C31_HistoryBoundedFifo ==
    [][ /\ \A m \in Players : Len(history'[m]) <= HISTORY_LENGTH
        /\ Ran =>
              IF last'.verdict = "accepted"
              THEN LET a == last'.author
                       h == history[a]
                   IN  /\ history'[a] =
                             IF Len(h) = HISTORY_LENGTH
                             THEN [i \in 1..HISTORY_LENGTH |->
                                     IF i < HISTORY_LENGTH THEN h[i + 1] ELSE last'.word]
                             ELSE h \o <<last'.word>>
                       /\ \A m \in Players \ {a} : history'[m] = history[m]
                       /\ members'[a].karma =
                             Max(0, members[a].karma
                                      + calculate_total_karma(last'.word, h))
              ELSE history' = history
        /\ ~Ran => history' = history ]_vars

C31_Witness ==
    /\ last.verdict = "accepted"
    /\ Len(history[1]) = HISTORY_LENGTH
    /\ history[1][HISTORY_LENGTH] = last.word
    /\ Cardinality(used_words) > HISTORY_LENGTH
    /\ \E w \in used_words : \A i \in 1..HISTORY_LENGTH : history[1][i] # w

(***************************************************************************)
(* Accepted words and used-word records under interleaving                 *)
(***************************************************************************)
\* C34 as stated: under every interleaving of the handlers a word the
\* count was raised for is never accepted again, and the accepted
\* submissions are as many as the used-word records: a handler decides to
\* accept only a word that is neither recorded as used nor accepted by a
\* handler still at its writes, and the writes of every accepted submission
\* add one record to the used words.
C34_AsStated ==
    [][ \A t \in Tasks :
          /\ ( handlers[t].pc = "checks" /\ handlers'[t].pc = "accept_write" ) =>
                /\ config'.current_count = config.current_count + 1
                /\ handlers[t].word \notin used_words
                /\ \A u \in Tasks \ {t} :
                      ~ ( /\ handlers[u].pc = "accept_write"
                          /\ handlers[u].word = handlers[t].word )
          /\ ( handlers[t].pc = "accept_write" /\ handlers'[t].pc = "idle" ) =>
                Cardinality(used_words') = Cardinality(used_words) + 1 ]_vars

=============================================================================
